---- MODULE Spec2Model ----
(***************************************************************************)
(* Model of the MSDS-sheet scraper (src/main.go).  The file holds two      *)
(* variants of the same program: variant 1 (lines 1-177) downloads under   *)
(* the raw link name, variant 2 (lines 179-455) under urlToFilename(link). *)
(* Go strings are modelled as sequences of one-character strings.          *)
(***************************************************************************)
EXTENDS Integers, Sequences, FiniteSets, TLC

\* ------------------------------------------------------------------ bounds
MaxLinks == 2
MaxRuns == 2
MaxStrLen == 2

\* ---------------------------------------------------------------- strings
UpperChars == <<"A","B","C","D","E","F","G","H","I","J","K","L","M",
                "N","O","P","Q","R","S","T","U","V","W","X","Y","Z">>
LowerChars == <<"a","b","c","d","e","f","g","h","i","j","k","l","m",
                "n","o","p","q","r","s","t","u","v","w","x","y","z">>
DigitChars == {"0","1","2","3","4","5","6","7","8","9"}

Range(s) == {s[i] : i \in 1..Len(s)}

\* strings.ToLower on one ASCII character
ToLowerChar(c) ==
  IF \E i \in 1..26 : UpperChars[i] = c
  THEN LowerChars[CHOOSE i \in 1..26 : UpperChars[i] = c]
  ELSE c

\* strings.ToLower
ToLower(s) == [i \in 1..Len(s) |-> ToLowerChar(s[i])]

\* the character class [a-z0-9] of reNonAlnum
IsAlnum(c) == c \in Range(LowerChars) \cup DigitChars

\* strings.HasPrefix(s, "/")
HasSlashPrefix(s) == Len(s) >= 1 /\ s[1] = "/"

\* strings.HasSuffix(s, "/")
HasSlashSuffix(s) == Len(s) >= 1 /\ s[Len(s)] = "/"

\* drop the leading characters of s that satisfy the class (the rest of a run)
RECURSIVE SkipNonAlnum(_)
SkipNonAlnum(s) ==
  IF s = <<>> \/ IsAlnum(Head(s)) THEN s ELSE SkipNonAlnum(Tail(s))

\* regexp `[^a-z0-9]+` ReplaceAllString(lower, "_")
RECURSIVE ReplaceNonAlnum(_)
ReplaceNonAlnum(s) ==
  IF s = <<>> THEN <<>>
  ELSE IF IsAlnum(Head(s)) THEN <<Head(s)>> \o ReplaceNonAlnum(Tail(s))
  ELSE <<"_">> \o ReplaceNonAlnum(SkipNonAlnum(Tail(s)))

RECURSIVE SkipUnderscores(_)
SkipUnderscores(s) ==
  IF s = <<>> \/ Head(s) # "_" THEN s ELSE SkipUnderscores(Tail(s))

\* regexp `_+` ReplaceAllString(safe, "_")
RECURSIVE CollapseUnderscores(_)
CollapseUnderscores(s) ==
  IF s = <<>> THEN <<>>
  ELSE IF Head(s) # "_" THEN <<Head(s)>> \o CollapseUnderscores(Tail(s))
  ELSE <<"_">> \o CollapseUnderscores(SkipUnderscores(Tail(s)))

\* strings.CutPrefix(safe, "_"): at most one leading underscore is removed
CutUnderscorePrefix(s) ==
  IF Len(s) >= 1 /\ s[1] = "_" THEN Tail(s) ELSE s

\* filepath.Ext: the suffix from the final dot of the final path element
RECURSIVE ExtFrom(_, _)
ExtFrom(path, i) ==
  IF i < 1 \/ path[i] = "/" THEN <<>>
  ELSE IF path[i] = "." THEN SubSeq(path, i, Len(path))
  ELSE ExtFrom(path, i - 1)

getFileExtension(path) == ExtFrom(path, Len(path))

DotPdf == <<".","p","d","f">>

urlToFilename(rawURL) ==
  LET lower == ToLower(rawURL)
      safe1 == ReplaceNonAlnum(lower)
      safe2 == CollapseUnderscores(safe1)
      safe3 == CutUnderscorePrefix(safe2)
  IN IF getFileExtension(safe3) # DotPdf THEN safe3 \o DotPdf ELSE safe3

\* filterFiles with the HasSuffix test left out
RECURSIVE filterFilesPrefixOnly(_)
filterFilesPrefixOnly(links) ==
  IF links = <<>> THEN <<>>
  ELSE IF HasSlashPrefix(Head(links))
       THEN filterFilesPrefixOnly(Tail(links))
       ELSE <<Head(links)>> \o filterFilesPrefixOnly(Tail(links))

\* filterFiles: the loop over links, appending the links that are kept
RECURSIVE filterFiles(_)
filterFiles(links) ==
  IF links = <<>> THEN <<>>
  ELSE IF HasSlashPrefix(Head(links)) \/ HasSlashSuffix(Head(links))
       THEN filterFiles(Tail(links))
       ELSE <<Head(links)>> \o filterFiles(Tail(links))

\* ------------------------------------------------------------------ paths
Slash == <<"/">>
Dot == <<".">>
DotDot == <<".",".">>

\* the slash-separated elements of a path
RECURSIVE SplitSlash(_, _)
SplitSlash(s, cur) ==
  IF s = <<>> THEN <<cur>>
  ELSE IF Head(s) = "/" THEN <<cur>> \o SplitSlash(Tail(s), <<>>)
  ELSE SplitSlash(Tail(s), Append(cur, Head(s)))

\* filepath.Clean on the elements: drop "" and ".", resolve inner ".."
RECURSIVE CleanElems(_, _, _)
CleanElems(elems, out, rooted) ==
  IF elems = <<>> THEN out
  ELSE LET e == Head(elems) rest == Tail(elems) IN
       IF e = <<>> \/ e = Dot THEN CleanElems(rest, out, rooted)
       ELSE IF e = DotDot
            THEN IF out # <<>> /\ out[Len(out)] # DotDot
                 THEN CleanElems(rest, SubSeq(out, 1, Len(out) - 1), rooted)
                 ELSE IF rooted THEN CleanElems(rest, out, rooted)
                 ELSE CleanElems(rest, Append(out, e), rooted)
            ELSE CleanElems(rest, Append(out, e), rooted)

RECURSIVE JoinElems(_)
JoinElems(elems) ==
  IF elems = <<>> THEN <<>>
  ELSE IF Len(elems) = 1 THEN elems[1]
  ELSE elems[1] \o Slash \o JoinElems(Tail(elems))

\* filepath.Clean
Clean(path) ==
  LET rooted == HasSlashPrefix(path)
      elems == CleanElems(SplitSlash(path, <<>>), <<>>, rooted)
      body == JoinElems(elems)
  IN IF rooted THEN Slash \o body
     ELSE IF body = <<>> THEN Dot ELSE body

\* filepath.Join(dir, name): empty elements are ignored, the result is cleaned
Join(dir, name) ==
  IF dir = <<>> /\ name = <<>> THEN <<>>
  ELSE IF name = <<>> THEN Clean(dir)
  ELSE IF dir = <<>> THEN Clean(name)
  ELSE Clean(dir \o Slash \o name)

\* the directory a cleaned path lies in
ParentDir(path) ==
  LET elems == SplitSlash(path, <<>>)
  IN IF Len(elems) <= 1 THEN Dot
     ELSE JoinElems(SubSeq(elems, 1, Len(elems) - 1))

\* var remoteFolder string = "Assets/"
remoteFolder == <<"A","s","s","e","t","s","/">>
AssetsDir == Clean(remoteFolder)

\* a cleaned path lies below the output directory
InsideAssets(path) ==
  LET elems == SplitSlash(path, <<>>)
  IN Len(elems) >= 2 /\ elems[1] = AssetsDir

\* ------------------------------------------------------------- filesystem
\* A filesystem is the set of regular files and the set of directories, by
\* cleaned path relative to the working directory.  The working directory
\* and its ancestors always exist.
OnlyDotDots(path) ==
  \A i \in 1..Len(SplitSlash(path, <<>>)) : SplitSlash(path, <<>>)[i] = DotDot

IsDirectory(f, path) ==
  path \in f.dirs \/ path = Dot \/ path = Slash \/ OnlyDotDots(path)

\* os.Stat succeeds
StatOk(f, path) == path \in f.files \/ IsDirectory(f, path)

\* fileExists returning info.IsDir() instead of its negation
fileExistsIsDir(f, filename) ==
  LET p == Clean(filename) IN StatOk(f, p) /\ IsDirectory(f, p)

\* fileExists without the IsDir test: any path that os.Stat finds
fileExistsAny(f, filename) == StatOk(f, Clean(filename))

\* fileExists: false when os.Stat fails, else !info.IsDir()
fileExists(f, filename) ==
  LET p == Clean(filename)
  IN IF ~StatOk(f, p) THEN FALSE ELSE ~IsDirectory(f, p)

\* directoryExists: false when os.Stat fails, else info.IsDir()
directoryExists(f, path) ==
  LET p == Clean(path)
  IN IF ~StatOk(f, p) THEN FALSE ELSE IsDirectory(f, p)

\* os.Create can succeed: the parent is a directory, the path is not one
CanCreate(f, path) ==
  /\ ~IsDirectory(f, path)
  /\ ParentDir(path) \notin f.files
  /\ IsDirectory(f, ParentDir(path))

\* os.MkdirAll / os.Mkdir of the (one-level) output directory can succeed
CanMkdir(f, path) == Clean(path) \notin f.files

\* -------------------------------------------------------------- documents
\* An html.Node: its type, tag, attributes in order, children in order.
Nil == [type |-> "nil"]

TextNode == [type |-> "text", data |-> "t", attr |-> <<>>, kids |-> <<>>]

Anchor(link) ==
  [type |-> "element", data |-> "a",
   attr |-> <<[key |-> "class", val |-> <<"x">>], [key |-> "href", val |-> link]>>,
   kids |-> <<TextNode>>]

Element(tag, kids) == [type |-> "element", data |-> tag, attr |-> <<>>, kids |-> kids]

\* the page the server holds: link i is a plain anchor when i is odd and an
\* anchor nested in a wrapper element when i is even
MkDoc(ls) ==
  Element("html", <<Element("body",
    [i \in 1..Len(ls) |->
       IF i % 2 = 1 THEN Anchor(ls[i]) ELSE Element("div", <<Anchor(ls[i])>>)])>>)

\* the href values of one node's attributes, in attribute order
RECURSIVE HrefsOf(_)
HrefsOf(attr) ==
  IF attr = <<>> THEN <<>>
  ELSE (IF Head(attr).key = "href" THEN <<Head(attr).val>> ELSE <<>>)
       \o HrefsOf(Tail(attr))

\* the recursive closure f of extractLinks, depth first
RECURSIVE traverse(_)
RECURSIVE traverseKids(_)
traverse(n) ==
  (IF n.type = "element" /\ n.data = "a" THEN HrefsOf(n.attr) ELSE <<>>)
  \o traverseKids(n.kids)
traverseKids(kids) ==
  IF kids = <<>> THEN <<>> ELSE traverse(Head(kids)) \o traverseKids(Tail(kids))

\* extractLinks: f(n) reads n.Type first, which panics on a nil node
extractLinks(n) ==
  IF n = Nil THEN [panic |-> TRUE, links |-> <<>>]
  ELSE [panic |-> FALSE, links |-> traverse(n)]

\* --------------------------------------------------------------- download
Ext_asc == <<".","a","s","c">>
Ext_apk == <<".","a","p","k">>
Ext_dmg == <<".","d","m","g">>
Ext_exe == <<".","e","x","e">>
Ext_gz == <<".","g","z">>
Ext_mar == <<".","m","a","r">>
Ext_txt == <<".","t","x","t">>
Ext_zip == <<".","z","i","p">>
Ext_xz == <<".","x","z">>
Ext_doc == <<".","d","o","c">>

\* allowedExts of variant 1 (line 85)
allowedExts ==
  {Ext_asc, Ext_asc \o <<"-","m","a","1">>,
   Ext_asc \o <<"-","p","i","e","r","o","v">>, Ext_apk,
   <<".","b","s","p","a","t","c","h">>, Ext_dmg, Ext_exe, Ext_gz,
   <<".","i","d","s","i","g">>, Ext_mar, Ext_txt, Ext_zip, Ext_xz, Ext_doc}

\* allowedExtensions of variant 2 (lines 357-363)
allowedExtensions ==
  allowedExts \cup
  {Ext_doc \o <<"x">>, DotPdf, <<".","x","l","s">>, <<".","x","l","s","x">>,
   <<".","p","p","t">>, <<".","p","p","t","x">>, <<".","c","s","v">>,
   <<".","j","p","g">>, <<".","j","p","e","g">>, <<".","p","n","g">>,
   <<".","g","i","f">>, <<".","b","m","p">>}

\* one allow-list for both variants that also lets ".html" through
AllowedOfMutant(v) == allowedExtensions \cup {<<".","h","t","m","l">>}

\* the allow-list of the variant's downloadFile
AllowedOf(v) == IF v = 1 THEN allowedExts ELSE allowedExtensions

\* what the environment does to one download: the first step that fails
Outcomes == {"ok", "get_err", "mkdir_err", "create_err", "copy_err"}

Failures == {"get_err", "mkdir_err", "create_err", "copy_err"}

DlResult(res, f, get, wrote) == [res |-> res, fs |-> f, get |-> get, wrote |-> wrote]

\* downloadFile of variant v on filesystem f under environment outcome o:
\* the result ("disallowed" and "exists" are the nil no-ops, "ok" the nil
\* success, the rest the returned errors), the filesystem afterwards,
\* whether the HTTP GET was issued and whether the local file was created
downloadFile(v, fileName, outDir, f, o) ==
  LET ext == ToLower(getFileExtension(fileName))
      outPath == Join(outDir, fileName)
      dir == Clean(outDir)
  IN IF ext \notin AllowedOf(v) THEN DlResult("disallowed", f, FALSE, FALSE)
     ELSE IF fileExists(f, outPath) THEN DlResult("exists", f, FALSE, FALSE)
     ELSE IF o = "get_err" THEN DlResult("get_err", f, TRUE, FALSE)
     ELSE IF v = 1 /\ ~IsDirectory(f, dir) /\ (o = "mkdir_err" \/ ~CanMkdir(f, dir))
          THEN DlResult("mkdir_err", f, TRUE, FALSE)
     ELSE LET f1 == IF v = 1 THEN [f EXCEPT !.dirs = @ \cup {dir}] ELSE f
          IN IF o = "create_err" \/ ~CanCreate(f1, outPath)
             THEN DlResult("create_err", f1, TRUE, FALSE)
             ELSE LET f2 == [f1 EXCEPT !.files = @ \cup {outPath}]
                  IN IF o = "copy_err" THEN DlResult("copy_err", f2, TRUE, TRUE)
                     ELSE DlResult("ok", f2, TRUE, TRUE)

\* ------------------------------------------------------------ environment
L_a_pdf == <<"a",".","p","d","f">>
L_b_abs == <<"/","b",".","p","d","f">>
L_dir == <<"d","i","r","/">>
L_c_PDF == <<"c",".","P","D","F">>
L_file_exe == <<"f","i","l","e",".","e","x","e">>
L_file_pdf == <<"f","i","l","e",".","p","d","f">>
L_file_html == <<"f","i","l","e",".","h","t","m","l">>
L_up_txt == <<".",".","/","e",".","t","x","t">>
L_sheet == <<"S","h","e","e","t"," ","A","/","B"," ","(","1",")",".","P","D","F">>
L_sheet_san == <<"s","h","e","e","t","_","a","_","b","_","1",".","p","d","f">>

\* the hrefs a served page may carry
PageLinks == {L_a_pdf, L_b_abs, L_dir, L_file_exe, L_up_txt}

ExampleLinks == <<L_a_pdf, L_b_abs, L_dir, L_c_PDF>>

SeqsUpTo(S, n) == UNION {[1..k -> S] : k \in 0..n}

Pages == {MkDoc(ls) : ls \in SeqsUpTo(PageLinks, MaxLinks) \cup {ExampleLinks}}

\* target names handed to downloadFile directly
UnitNames == {L_file_html, L_file_exe, L_file_pdf, L_c_PDF}

SanAlphabet == {"a", "P", ".", "_", "/", "1"}

SanInputs == SeqsUpTo(SanAlphabet, MaxStrLen) \cup {L_sheet, L_sheet_san, L_a_pdf}

\* the filesystems a run may start on
FsEmpty == [files |-> {}, dirs |-> {}]
FsAssets == [files |-> {}, dirs |-> {AssetsDir}]
FsAssetsIsFile == [files |-> {AssetsDir}, dirs |-> {}]
FsDirAtTarget ==
  [files |-> {},
   dirs |-> {AssetsDir, Join(remoteFolder, L_file_exe), Join(remoteFolder, L_file_pdf),
             Join(remoteFolder, urlToFilename(L_a_pdf))}]
FsHasFile == [files |-> {Join(remoteFolder, L_file_exe)}, dirs |-> {AssetsDir}]

InitFS == {FsEmpty, FsAssets, FsAssetsIsFile, FsDirAtTarget, FsHasFile}

\* ------------------------------------------------------------------ state
VARIABLES
  variant,     \* which of the two programs runs
  pc,          \* position in main
  run,         \* number of the current run of the program
  page,        \* the document the server holds
  doc,         \* node returned by fetchHTML (Nil: nil)
  hrefs,       \* result of extractLinks
  links,       \* result of filterFiles
  idx,         \* position of the download loop in links
  fs,          \* the filesystem
  calls,       \* target names downloadFile was invoked with, this run
  results,     \* what each of these invocations returned
  gets,        \* target names a file HTTP GET was issued for, this run
  writes,      \* paths of the local files created, this run
  downloaded,  \* paths fully downloaded by earlier runs
  dirFailed,   \* creating the output directory failed in this run
  sanIn,       \* argument of a direct urlToFilename call
  sanOut       \* its result

vars == <<variant, pc, run, page, doc, hrefs, links, idx, fs, calls, results,
          gets, writes, downloaded, dirFailed, sanIn, sanOut>>

Terminal == {"done", "panic", "fatal"}

FetchOutcomes == {"ok", "request_err", "transport_err", "status_err", "parse_err"}

\* the name main hands to downloadFile for a link
TargetOf(v, link) == IF v = 1 THEN link ELSE urlToFilename(link)

LocalPath(name) == Join(remoteFolder, name)

Init ==
  /\ variant \in {1, 2}
  /\ page \in Pages
  /\ fs \in InitFS
  /\ pc = "start"
  /\ run = 1
  /\ doc = Nil
  /\ hrefs = <<>>
  /\ links = <<>>
  /\ idx = 1
  /\ calls = <<>>
  /\ results = <<>>
  /\ gets = <<>>
  /\ writes = <<>>
  /\ downloaded = {}
  /\ dirFailed = FALSE
  /\ sanIn = <<>>
  /\ sanOut = <<>>

\* fetchHTML: every failure is logged and yields nil
fetchHTML(o) == IF o = "ok" THEN page ELSE Nil

MainFetch ==
  /\ pc = "start"
  /\ \E o \in FetchOutcomes : doc' = fetchHTML(o)
  /\ pc' = "fetched"
  /\ UNCHANGED <<variant, run, page, hrefs, links, idx, fs, calls, results,
                 gets, writes, downloaded, dirFailed, sanIn, sanOut>>

MainExtractFilter ==
  /\ pc = "fetched"
  /\ LET r == extractLinks(doc)
     IN IF r.panic
        THEN pc' = "panic" /\ UNCHANGED <<hrefs, links>>
        ELSE /\ hrefs' = r.links
             /\ links' = filterFiles(r.links)
             /\ pc' = "mkdir"
  /\ UNCHANGED <<variant, run, page, doc, idx, fs, calls, results,
                 gets, writes, downloaded, dirFailed, sanIn, sanOut>>

\* variant 1: os.MkdirAll, log.Fatalln on error
\* variant 2: directoryExists, then createDirectory, which only logs the error
MainEnsureDir ==
  /\ pc = "mkdir"
  /\ IF (variant = 1 /\ IsDirectory(fs, AssetsDir))
        \/ (variant = 2 /\ directoryExists(fs, remoteFolder))
     THEN pc' = "loop" /\ UNCHANGED <<fs, dirFailed>>
     ELSE \E ok \in BOOLEAN :
            IF ok /\ CanMkdir(fs, remoteFolder)
            THEN /\ fs' = [fs EXCEPT !.dirs = @ \cup {AssetsDir}]
                 /\ pc' = "loop"
                 /\ UNCHANGED dirFailed
            ELSE /\ dirFailed' = TRUE
                 /\ pc' = IF variant = 1 THEN "fatal" ELSE "loop"
                 /\ UNCHANGED fs
  /\ UNCHANGED <<variant, run, page, doc, hrefs, links, idx, calls, results,
                 gets, writes, downloaded, sanIn, sanOut>>

\* one iteration of the download loop, with the loop left on an error
MainDownloadAbort ==
  /\ pc = "loop"
  /\ idx <= Len(links)
  /\ \E o \in Outcomes :
       LET name == TargetOf(variant, links[idx])
           r == downloadFile(variant, name, remoteFolder, fs, o)
       IN /\ fs' = r.fs
          /\ calls' = Append(calls, name)
          /\ results' = Append(results, r.res)
          /\ gets' = IF r.get THEN Append(gets, name) ELSE gets
          /\ writes' = IF r.wrote THEN Append(writes, LocalPath(name)) ELSE writes
          /\ pc' = IF r.res \in Failures THEN "done" ELSE "loop"
  /\ idx' = idx + 1
  /\ UNCHANGED <<variant, run, page, doc, hrefs, links,
                 downloaded, dirFailed, sanIn, sanOut>>

\* one iteration of the download loop: an error is printed, the loop goes on
MainDownload ==
  /\ pc = "loop"
  /\ idx <= Len(links)
  /\ \E o \in Outcomes :
       LET name == TargetOf(variant, links[idx])
           r == downloadFile(variant, name, remoteFolder, fs, o)
       IN /\ fs' = r.fs
          /\ calls' = Append(calls, name)
          /\ results' = Append(results, r.res)
          /\ gets' = IF r.get THEN Append(gets, name) ELSE gets
          /\ writes' = IF r.wrote THEN Append(writes, LocalPath(name)) ELSE writes
  /\ idx' = idx + 1
  /\ UNCHANGED <<variant, pc, run, page, doc, hrefs, links,
                 downloaded, dirFailed, sanIn, sanOut>>

\* the loop is exhausted and main returns
MainFinish ==
  /\ pc = "loop"
  /\ idx > Len(links)
  /\ pc' = "done"
  /\ UNCHANGED <<variant, run, page, doc, hrefs, links, idx, fs, calls, results,
                 gets, writes, downloaded, dirFailed, sanIn, sanOut>>

\* the paths this run downloaded in full
DownloadedNow ==
  {LocalPath(calls[i]) : i \in {j \in 1..Len(calls) : results[j] = "ok"}}

\* the program is started again on the same page and working directory
Rerun ==
  /\ pc \in Terminal
  /\ run < MaxRuns
  /\ run' = run + 1
  /\ downloaded' = downloaded \cup DownloadedNow
  /\ pc' = "start"
  /\ doc' = Nil
  /\ hrefs' = <<>>
  /\ links' = <<>>
  /\ idx' = 1
  /\ calls' = <<>>
  /\ results' = <<>>
  /\ gets' = <<>>
  /\ writes' = <<>>
  /\ dirFailed' = FALSE
  /\ UNCHANGED <<variant, page, fs, sanIn, sanOut>>

Next ==
  \/ MainFetch
  \/ MainExtractFilter
  \/ MainEnsureDir
  \/ MainDownload
  \/ MainFinish
  \/ Rerun

Spec == Init /\ [][Next]_vars

\* ---------------------------------------------- direct calls of functions
UnitInit ==
  /\ variant \in {1, 2}
  /\ fs \in InitFS
  /\ pc = "unit"
  /\ run = 1
  /\ page = Nil
  /\ doc = Nil
  /\ hrefs = <<>>
  /\ links = <<>>
  /\ idx = 1
  /\ calls = <<>>
  /\ results = <<>>
  /\ gets = <<>>
  /\ writes = <<>>
  /\ downloaded = {}
  /\ dirFailed = FALSE
  /\ sanIn = <<>>
  /\ sanOut = <<>>

\* downloadFile(baseURL, name, "Assets/") called on its own
CallDownloadFile ==
  /\ pc = "unit"
  /\ \E name \in UnitNames, o \in Outcomes :
       LET r == downloadFile(variant, name, remoteFolder, fs, o)
       IN /\ fs' = r.fs
          /\ calls' = <<name>>
          /\ results' = <<r.res>>
          /\ gets' = IF r.get THEN <<name>> ELSE <<>>
          /\ writes' = IF r.wrote THEN <<LocalPath(name)>> ELSE <<>>
  /\ pc' = "called"
  /\ UNCHANGED <<variant, run, page, doc, hrefs, links, idx,
                 downloaded, dirFailed, sanIn, sanOut>>

\* urlToFilename(s) called on its own
CallUrlToFilename ==
  /\ pc = "unit"
  /\ \E s \in SanInputs : sanIn' = s /\ sanOut' = urlToFilename(s)
  /\ pc' = "sanitized"
  /\ UNCHANGED <<variant, run, page, doc, hrefs, links, idx, fs, calls, results,
                 gets, writes, downloaded, dirFailed>>

UnitNext == CallDownloadFile \/ CallUrlToFilename

UnitSpec == UnitInit /\ [][UnitNext]_vars

\* ================================================================ claims

\* C1: when the page fetch fails, the pipeline still runs to its normal end
\* (empty link set, directory ensured, no download) instead of aborting.
C1_FailedFetchRunsToEnd ==
  (pc # "start" /\ doc = Nil) => pc # "panic"

\* C2: in both variants no Downloader invocation (no file GET, no file
\* creation) happens after the creation of the output directory failed.
C2_DirFailureIsFatal ==
  dirFailed => (calls = <<>> /\ gets = <<>> /\ writes = <<>>)

\* C3: urlToFilename is a fixed point on its own output, and re-sanitizing
\* "sheet_a_b_1.pdf" yields "sheet_a_b_1.pdf".
C3_SanitizerFixedPoint ==
  pc = "sanitized" =>
    /\ urlToFilename(sanOut) = sanOut
    /\ (sanIn = L_sheet_san => sanOut = L_sheet_san)

EndsWithPdf(s) == Len(s) >= 4 /\ SubSeq(s, Len(s) - 3, Len(s)) = DotPdf

SanitizedStem(s) == CutUnderscorePrefix(CollapseUnderscores(ReplaceNonAlnum(s)))

\* C4: a link whose lower-cased form ends in ".pdf" maps to its sanitized
\* stem followed by exactly one ".pdf" with nothing added ("Sheet A/B
\* (1).PDF" maps to "sheet_a_b_1.pdf"); any other link gets ".pdf" appended.
C4_PdfAppendedOnlyWhenMissing ==
  pc = "sanitized" =>
    LET lower == ToLower(sanIn)
    IN /\ EndsWithPdf(lower) =>
            sanOut = SanitizedStem(SubSeq(lower, 1, Len(lower) - 4)) \o DotPdf
       /\ ~EndsWithPdf(lower) => sanOut = SanitizedStem(lower) \o DotPdf
       /\ sanIn = L_sheet => sanOut = L_sheet_san

Retained(link) == ~(HasSlashPrefix(link) \/ HasSlashSuffix(link))

\* C5: filterFiles drops a link iff it starts or ends with "/"; the output
\* is the subsequence of the retained links, order and duplicates kept.
C5_FilterCorrect ==
  pc \in {"mkdir", "loop", "done", "fatal"} =>
    /\ links = SelectSeq(hrefs, Retained)
    /\ (hrefs = ExampleLinks => links = <<L_a_pdf, L_c_PDF>>)

C5_Witness ==
  pc = "mkdir" /\ hrefs = ExampleLinks /\ links = <<L_a_pdf, L_c_PDF>>

\* the invocation passed the extension gate: it went on to the existence
\* check and, unless the file was there, to the HTTP GET
PassedGate(f, n, r, g) ==
  /\ r # "disallowed"
  /\ (r = "exists") <=> fileExists(f, LocalPath(n))
  /\ r # "exists" => g = <<n>>

\* the invocation was a no-op of the gate: nil, no request, no file
GateNoOp(f, r, g, w, f2) ==
  r = "disallowed" /\ g = <<>> /\ w = <<>> /\ f2 = f

\* C6 (amended): "file.html" is a no-op (nil, no HTTP request, no file) in
\* both variants; "file.exe" passes the gate in both variants; "file.pdf"
\* passes the gate in variant 2 and is the same no-op in variant 1, whose
\* allow-list has no ".pdf".
C6_ExtensionGate ==
  [][(pc = "unit" /\ pc' = "called") =>
       LET n == calls'[1] r == results'[1]
       IN /\ n = L_file_html => GateNoOp(fs, r, gets', writes', fs')
          /\ n = L_file_exe => PassedGate(fs, n, r, gets')
          /\ (n = L_file_pdf /\ variant = 2) => PassedGate(fs, n, r, gets')
          /\ (n = L_file_pdf /\ variant = 1) => GateNoOp(fs, r, gets', writes', fs')]_vars

C6_Witness ==
  /\ pc = "called" /\ variant = 1
  /\ calls = <<L_file_pdf>> /\ results = <<"disallowed">> /\ gets = <<>>

\* C6 as stated: "file.html" is a no-op without request or file, while
\* "file.exe" and "file.pdf" pass the gate (in either variant).
C6_Original ==
  [][(pc = "unit" /\ pc' = "called") =>
       LET n == calls'[1] r == results'[1]
       IN /\ n = L_file_html => GateNoOp(fs, r, gets', writes', fs')
          /\ n \in {L_file_exe, L_file_pdf} => PassedGate(fs, n, r, gets')]_vars

\* C7: in a later run over the same page and directory no target whose
\* file an earlier run downloaded is written or fetched again; each such
\* invocation returns the nil "already exists" skip.
C7_RerunSkipsDownloaded ==
  run >= 2 =>
    /\ \A i \in 1..Len(calls) :
         LocalPath(calls[i]) \in downloaded => results[i] = "exists"
    /\ \A i \in 1..Len(writes) : writes[i] \notin downloaded
    /\ \A i \in 1..Len(gets) : LocalPath(gets[i]) \notin downloaded

C7_Witness ==
  /\ run = 2 /\ pc = "done" /\ writes = <<>> /\ gets = <<>>
  /\ \E i \in 1..Len(calls) :
       LocalPath(calls[i]) \in downloaded /\ results[i] = "exists"

Targets == [i \in 1..Len(links) |-> TargetOf(variant, links[i])]

\* C8: downloadFile is invoked exactly once per surviving target, one at a
\* time in document order, whatever the earlier invocations returned.
C8_FailureDoesNotAbort ==
  /\ pc = "loop" =>
       /\ idx - 1 <= Len(links)
       /\ calls = SubSeq(Targets, 1, idx - 1)
       /\ Len(results) = Len(calls)
  /\ pc = "done" => (calls = Targets /\ Len(results) = Len(calls))

C8_Witness ==
  /\ pc = "done" /\ Len(calls) >= 2
  /\ results[1] \in Failures /\ calls = Targets

\* C9: with a directory at the target's local path, downloadFile does not
\* take the "already exists" no-op: it issues the GET and, the response
\* received, fails at file creation; it returns an error and the directory
\* stays.
C9_DirectoryAtTarget ==
  pc = "called" =>
    LET n == calls[1] p == LocalPath(n)
    IN (p \in fs.dirs /\ ToLower(getFileExtension(n)) \in AllowedOf(variant)) =>
         /\ results[1] \in {"get_err", "create_err"}
         /\ gets = <<n>>
         /\ writes = <<>>
         /\ p \notin fs.files

C9_Witness ==
  /\ pc = "called" /\ results = <<"create_err">>
  /\ LocalPath(calls[1]) \in fs.dirs /\ gets = calls

\* C10: every file the pipeline creates lies inside the output directory.
C10_PathContainment ==
  \A i \in 1..Len(writes) : InsideAssets(writes[i])

====
